---------------------------- MODULE Spec2Model ----------------------------
(***************************************************************************)
(* A model of flipperbridge: the length-prefixed frame codec               *)
(* (src/src/codec.rs), the stream packetizer and build_frame               *)
(* (src/src/transport/mod.rs), the serial transport and its handshake      *)
(* (src/src/transport/serial.rs) and the BLE transport and its split       *)
(* halves (src/src/transport/ble.rs).                                      *)
(*                                                                         *)
(* Bytes are the integers 0..255.  A byte buffer is a sequence of bytes.   *)
(***************************************************************************)
EXTENDS Integers, Sequences, FiniteSets, TLC

(***************************************************************************)
(* Program constants.                                                      *)
(***************************************************************************)
\* consts.rs: pub const MAX_FRAME_LENGTH: usize = 1536;
MAX_FRAME_LENGTH == 1536

\* consts.rs: pub const PROMPT_PATTERN: [u8; 4] = [0x0a, 0x3e, 0x3a, 0x20];
PROMPT_PATTERN == <<10, 62, 58, 32>>

(***************************************************************************)
(* Bounds of the model.                                                    *)
(***************************************************************************)
\* Frames encoded onto one wire.
MaxFrames == 2

\* Bytes of noise the serial device emits before its prompt, when the noise
\* is short (every sequence over NoiseBytes up to this length is tried).
MaxNoise == 3

\* Frames (serial) or notifications (ble) the device sends to the host.
MaxEmit == 2

\* Frames write_frame puts on the link.
MaxWrites == 2

\* Adapters of the host.
MaxAdapters == 3

\* Where the model cuts the wire into chunks, as offsets from the wire's
\* start, from its end and from the end of each frame on it: every boundary
\* of a short frame; inside and right after the prefix, and before the last
\* body byte, of a long one.
CutOffsets == {-1, 0, 1, 2}

(***************************************************************************)
(* Inputs.                                                                 *)
(***************************************************************************)
\* The body named by [len, seed]: its first byte is seed and the following
\* bytes count upwards modulo 256, so bodies hold bytes that look like
\* prefixes (0x00, 0x01) and continuation bytes (0x80..0xff).
Body(id) == [i \in 1..id.len |-> (id.seed + i - 1) % 256]

\* Bodies the encoder accepts: empty, one byte, the first length with a
\* two-byte prefix (128), and the largest (1536).
ValidIds ==
    { [len |-> 0, seed |-> 0], [len |-> 1, seed |-> 128],
      [len |-> 128, seed |-> 0], [len |-> MAX_FRAME_LENGTH, seed |-> 128] }

\* Bodies one byte too long, and of the 65534 bytes of check_basic_build_frame_ovf.
OversizeIds ==
    { [len |-> MAX_FRAME_LENGTH + 1, seed |-> 0], [len |-> 65534, seed |-> 0] }

BodyIds == ValidIds \cup OversizeIds

\* Raw bytes a peer may put on the wire: the length prefix 65534 of
\* check_data_sanitizer (with its following byte) and the prefix 1537.
RawPrefixes == { <<254, 255, 3, 0>>, <<129, 12>> }

VARIABLES
    \* ---- codec.rs / transport/mod.rs: one decoder fed from one wire ----
    wire,      \* bytes produced by the encoder (the peer's output), in order
    frames,    \* ids of the bodies encoded onto the wire, in order
    ends,      \* ends[k]: length of the wire after the k-th frame was encoded
    clean,     \* FALSE once raw bytes were put on the wire
    pos,       \* number of wire bytes already handed to decode
    cbuf,      \* FlipperCodec.buf of the decoding instance
    res,       \* result of the last FlipperCodec::decode call
    inbuf,     \* the caller's BytesMut after the last decode call
    out,       \* frames returned by FlipperCodec::decode so far, in order
    calls,     \* decode calls made on the instance: "none", "one" or "more"
    fed,       \* length of the chunk given to the last decode call
    pbuf,      \* StreamPacketizer.buf
    pres,      \* result of the last StreamPacketizer::poll call
    encArg,    \* id of the body given to the last encode call
    encRes,    \* result of the last FlipperCodec::encode call
    bfRes,     \* result of the last build_frame call
    \* ---- transport/serial.rs, transport/ble.rs: one transport object ----
    kind,      \* "serial" (SerialTransport) or "ble" (BTLETransport)
    tpc,       \* where the transport is: see TransportStates
    dev,       \* serial: bytes the device has emitted and the host has not read
    devMode,   \* serial device: "shell" until it gets the command, then "rpc"
    patternbuf,\* serial: drain_until_pattern's patternbuf
    drainLeft, \* serial: Len(dev) when the prompt drain returned, -1 before
    framed,    \* serial: self.framed is Some
    chars,     \* ble: self.chars is Some
    subscribed,\* ble: the rx characteristic is subscribed at the peripheral
    tcodec,    \* the transport's FlipperCodec.buf (inside Framed for serial)
    readable,  \* serial: Framed has a decode call pending before it reads
    initRes,   \* result of init: NoCall, Ok, an error, or Panic
    rres,      \* result of the last read_frame call
    wres,      \* result of the last write_frame call
    warg,      \* length of the body given to the last write_frame call
    link,      \* body lengths of the frames write_frame put on the link
    nread,     \* frames returned by read_frame so far
    busy,      \* TRUE while a read_frame call is suspended
    lastRead,  \* serial: min(readsz, pattern.len()) of the prompt drain's last read
    nemit,     \* frames / notifications the device has sent so far
    discovered,\* ble: the characteristics the peripheral reported to init
    nfed,      \* ble: notifications whose payload was given to the codec
    eof,       \* the link has ended: the port is at end-of-stream, or the
               \* notification streams yield no item
    iter,      \* parity of the iterations of read_frame's loop that neither
               \* returned nor suspended
    drained,   \* serial: bytes the current drain_until_pattern call has read
    \* ---- transport/ble.rs: the two halves made by split_stream ----
    spc,       \* BTLEFrameSender::write_frame: where the call is
    rpc,       \* BTLEFrameReceiver::read_frame: where the call is
    lock,      \* the RwLock around the Peripheral: who holds which guard
    sframe,    \* the frame the running write_frame call encoded
    rdoneMidWrite, \* a read_frame returned a frame while a write_frame ran
    \* ---- transport/ble.rs: one FlipperScanner ----
    sysAdapters,   \* number of adapters the host's manager reports
    bt_adapters,   \* Len of self.bt_adapters (0 while no scanner exists)
    adapter_idx,   \* self.adapter_idx
    newRes,        \* result of FlipperScanner::new
    setArg,        \* idx given to the last set_adapter call
    setRes,        \* result of the last set_adapter call
    nameRes,       \* result of the last get_adapter_name call
    searchRes      \* result of the last search_flipper_by_name call

codecVars ==
    << wire, frames, ends, clean, pos, cbuf, res, inbuf, out, calls, fed,
       pbuf, pres, encArg, encRes, bfRes >>

transportVars ==
    << kind, tpc, dev, devMode, patternbuf, drainLeft, framed, chars,
       subscribed, tcodec, readable, initRes, rres, wres, warg, link, nread,
       busy, lastRead, nemit, discovered, nfed, eof, iter, drained >>

splitVars == << spc, rpc, lock, sframe, rdoneMidWrite >>

scannerVars ==
    << sysAdapters, bt_adapters, adapter_idx, newRes, setArg, setRes, nameRes,
       searchRes >>

vars == << codecVars, transportVars, splitVars, scannerVars >>

(***************************************************************************)
(* integer_encoding::VarInt for u64, as called by the codec.               *)
(***************************************************************************)
\* 2^n for the shifts the model reaches.
Pow2(n) == 2 ^ n

\* u64::decode_var(src): walks src from its first byte, ORs the low seven
\* bits of each byte into the result at shift 0, 7, 14, ..., and stops at
\* the first byte without the continuation bit.  None when src ends (or ten
\* bytes passed) before such a byte.  Groups at shift 28 and above do not fit
\* the model's integers: a prefix that long yields a value of at least 2^28.
RECURSIVE decode_var_from(_, _, _)
decode_var_from(src, i, acc) ==
    IF i > Len(src) \/ i > 10
    THEN [some |-> FALSE]
    ELSE LET b     == src[i]
             shift == 7 * (i - 1)
             grp   == IF shift <= 21 THEN (b % 128) * Pow2(shift)
                      ELSE IF b % 128 = 0 THEN 0 ELSE Pow2(28)
             acc2  == IF acc + grp > Pow2(28) THEN Pow2(28) ELSE acc + grp
         IN  IF b < 128
             THEN [some |-> TRUE, len |-> acc2, consumed |-> i]
             ELSE decode_var_from(src, i + 1, acc2)

decode_var(src) == decode_var_from(src, 1, 0)

\* (n as u64).encode_var(&mut header): seven bits per byte, low group first,
\* the continuation bit on every byte but the last; returns the bytes written.
RECURSIVE encode_var(_)
encode_var(n) ==
    IF n >= 128
    THEN <<128 + (n % 128)>> \o encode_var(n \div 128)
    ELSE <<n>>

(***************************************************************************)
(* codec.rs: FlipperCodec.                                                 *)
(***************************************************************************)
NoFrame == [kind |-> "None"]

SomeFrame(f) == [kind |-> "Some", frame |-> f]

\* std::io::Error::new(ErrorKind::InvalidData, "Data too big!")
InvalidData == [kind |-> "Err", err |-> "InvalidData", msg |-> "Data too big!"]

\* FlipperError::DataTooLarge(n)
DataTooLarge(n) == [kind |-> "Err", err |-> "DataTooLarge", len |-> n]

\* Vec::drain(0..n) on buf: what is left of buf.
Drain(buf, n) == SubSeq(buf, n + 1, Len(buf))

\* FlipperCodec::decode with the whole buffer dropped once a frame is returned.
FlipperCodec_decode_dropRest(self_buf, chunk) ==
    LET buf == self_buf \o chunk
        v   == decode_var(buf)
    IN  IF ~v.some
        THEN [res |-> NoFrame, buf |-> buf, inbuf |-> << >>]
        ELSE IF v.len > MAX_FRAME_LENGTH
        THEN [res |-> InvalidData, buf |-> buf, inbuf |-> << >>]
        ELSE IF Len(buf) >= v.len + v.consumed
        THEN [res |-> SomeFrame(SubSeq(Drain(buf, v.consumed), 1, v.len)),
              buf |-> << >>, inbuf |-> << >>]
        ELSE [res |-> NoFrame, buf |-> buf, inbuf |-> << >>]

\* FlipperCodec::decode with an incomplete frame's bytes dropped.
FlipperCodec_decode_forget(self_buf, chunk) ==
    LET buf == self_buf \o chunk
        v   == decode_var(buf)
    IN  IF ~v.some
        THEN [res |-> NoFrame, buf |-> << >>, inbuf |-> << >>]
        ELSE IF v.len > MAX_FRAME_LENGTH
        THEN [res |-> InvalidData, buf |-> buf, inbuf |-> << >>]
        ELSE IF Len(buf) >= v.len + v.consumed
        THEN LET rest == Drain(buf, v.consumed)
             IN  [res |-> SomeFrame(SubSeq(rest, 1, v.len)),
                  buf |-> Drain(rest, v.len), inbuf |-> << >>]
        ELSE [res |-> NoFrame, buf |-> << >>, inbuf |-> << >>]

\* FlipperCodec::decode with the prefix left in the buffer: the body's bytes
\* are taken from the buffer's head.
FlipperCodec_decode_keepPrefix(self_buf, chunk) ==
    LET buf == self_buf \o chunk
        v   == decode_var(buf)
    IN  IF ~v.some
        THEN [res |-> NoFrame, buf |-> buf, inbuf |-> << >>]
        ELSE IF v.len > MAX_FRAME_LENGTH
        THEN [res |-> InvalidData, buf |-> buf, inbuf |-> << >>]
        ELSE IF Len(buf) >= v.len + v.consumed
        THEN [res |-> SomeFrame(SubSeq(buf, 1, v.len)),
              buf |-> Drain(buf, v.len), inbuf |-> << >>]
        ELSE [res |-> NoFrame, buf |-> buf, inbuf |-> << >>]

\* FlipperCodec::decode with the buffer emptied when the prefix is over
\* MAX_FRAME_LENGTH.
FlipperCodec_decode_skipOversize(self_buf, chunk) ==
    LET buf == self_buf \o chunk
        v   == decode_var(buf)
    IN  IF ~v.some
        THEN [res |-> NoFrame, buf |-> buf, inbuf |-> << >>]
        ELSE IF v.len > MAX_FRAME_LENGTH
        THEN [res |-> InvalidData, buf |-> << >>, inbuf |-> << >>]
        ELSE IF Len(buf) >= v.len + v.consumed
        THEN LET rest == Drain(buf, v.consumed)
             IN  [res |-> SomeFrame(SubSeq(rest, 1, v.len)),
                  buf |-> Drain(rest, v.len), inbuf |-> << >>]
        ELSE [res |-> NoFrame, buf |-> buf, inbuf |-> << >>]

\* FlipperCodec::decode(&mut self, buf): appends buf to self.buf and empties
\* buf (buf.advance(buf.len())); then parses the prefix at the head of
\* self.buf and, when prefix and body are there, drains both and returns
\* the body.  Yields the result, the new self.buf and the caller's buf.
FlipperCodec_decode(self_buf, chunk) ==
    LET buf == self_buf \o chunk
        v   == decode_var(buf)
    IN  IF ~v.some
        THEN [res |-> NoFrame, buf |-> buf, inbuf |-> << >>]
        ELSE IF v.len > MAX_FRAME_LENGTH
        THEN [res |-> InvalidData, buf |-> buf, inbuf |-> << >>]
        ELSE IF Len(buf) >= v.len + v.consumed
        THEN LET rest == Drain(buf, v.consumed)
             IN  [res |-> SomeFrame(SubSeq(rest, 1, v.len)),
                  buf |-> Drain(rest, v.len), inbuf |-> << >>]
        ELSE [res |-> NoFrame, buf |-> buf, inbuf |-> << >>]

\* FlipperCodec::encode rejecting a body of exactly MAX_FRAME_LENGTH bytes.
FlipperCodec_encode_offByOne(data, buf) ==
    IF Len(data) >= MAX_FRAME_LENGTH
    THEN [res |-> InvalidData, buf |-> buf]
    ELSE [res |-> [kind |-> "Ok"], buf |-> buf \o encode_var(Len(data)) \o data]

\* FlipperCodec::encode(&mut self, data, buf): appends the prefix and the
\* data to buf, or fails and leaves buf alone.
FlipperCodec_encode(data, buf) ==
    IF Len(data) > MAX_FRAME_LENGTH
    THEN [res |-> InvalidData, buf |-> buf]
    ELSE [res |-> [kind |-> "Ok"], buf |-> buf \o encode_var(Len(data)) \o data]

(***************************************************************************)
(* transport/mod.rs: StreamPacketizer and build_frame.                     *)
(***************************************************************************)
StreamPacketizer_fill_buffer(self_buf, data) == self_buf \o data

\* A poll that already rejects a prefix equal to the maximum.
StreamPacketizer_poll_offByOne(self_buf) ==
    LET v == decode_var(self_buf)
    IN  IF ~v.some
        THEN [res |-> NoFrame, buf |-> self_buf]
        ELSE IF v.len >= MAX_FRAME_LENGTH
        THEN [res |-> DataTooLarge(v.len), buf |-> self_buf]
        ELSE IF Len(self_buf) >= v.len + v.consumed
        THEN LET rest == Drain(self_buf, v.consumed)
             IN  [res |-> SomeFrame(SubSeq(rest, 1, v.len)),
                  buf |-> Drain(rest, v.len)]
        ELSE [res |-> NoFrame, buf |-> self_buf]

\* StreamPacketizer::poll(&mut self): yields the result and the new self.buf.
StreamPacketizer_poll(self_buf) ==
    LET v == decode_var(self_buf)
    IN  IF ~v.some
        THEN [res |-> NoFrame, buf |-> self_buf]
        ELSE IF v.len > MAX_FRAME_LENGTH
        THEN [res |-> DataTooLarge(v.len), buf |-> self_buf]
        ELSE IF Len(self_buf) >= v.len + v.consumed
        THEN LET rest == Drain(self_buf, v.consumed)
             IN  [res |-> SomeFrame(SubSeq(rest, 1, v.len)),
                  buf |-> Drain(rest, v.len)]
        ELSE [res |-> NoFrame, buf |-> self_buf]

build_frame(data) ==
    IF Len(data) > MAX_FRAME_LENGTH
    THEN DataTooLarge(Len(data))
    ELSE [kind |-> "Ok", frame |-> encode_var(Len(data)) \o data]

(***************************************************************************)
(* The codec under arbitrary encoding and chunked delivery.                *)
(***************************************************************************)
NoCall == [kind |-> "NoCall"]

\* The codec variables when no codec run is modelled.
CodecIdle ==
    /\ wire = << >>
    /\ frames = << >>
    /\ ends = << >>
    /\ clean = TRUE
    /\ pos = 0
    /\ cbuf = << >>
    /\ res = NoCall
    /\ inbuf = << >>
    /\ out = << >>
    /\ calls = "none"
    /\ fed = 0
    /\ pbuf = << >>
    /\ pres = NoCall
    /\ encArg = [len |-> 0, seed |-> 0]
    /\ encRes = NoCall
    /\ bfRes = NoCall

\* The transport variables when no transport is modelled.
TransportIdle ==
    /\ kind = "none"
    /\ tpc = "new"
    /\ dev = << >>
    /\ devMode = "shell"
    /\ patternbuf = << >>
    /\ drainLeft = -1
    /\ framed = FALSE
    /\ chars = FALSE
    /\ subscribed = FALSE
    /\ tcodec = << >>
    /\ readable = FALSE
    /\ initRes = NoCall
    /\ rres = NoCall
    /\ wres = NoCall
    /\ warg = 0
    /\ link = << >>
    /\ nread = 0
    /\ busy = FALSE
    /\ lastRead = 0
    /\ nemit = 0
    /\ discovered = {}
    /\ nfed = 0
    /\ eof = FALSE
    /\ iter = 0
    /\ drained = 0

\* An empty BytesMut, as OnLink sees it.
NoBytes == [bytes |-> 0, body |-> 0]

\* RwLock::new(..): no guard is out.
RwLock_new == [readers |-> {}, writer |-> FALSE]

\* No scanner has been made; the host has no adapter.
ScannerIdle ==
    /\ sysAdapters = 0
    /\ bt_adapters = 0
    /\ adapter_idx = 0
    /\ newRes = NoCall
    /\ setArg = 0
    /\ setRes = NoCall
    /\ nameRes = NoCall
    /\ searchRes = NoCall

\* No split has been made.
SplitIdle ==
    /\ spc = "idle"
    /\ rpc = "idle"
    /\ lock = RwLock_new
    /\ sframe = NoBytes
    /\ rdoneMidWrite = FALSE

InitCodec ==
    /\ SplitIdle
    /\ ScannerIdle
    /\ TransportIdle
    /\ wire = << >>
    /\ frames = << >>
    /\ ends = << >>
    /\ clean = TRUE
    /\ pos = 0
    /\ cbuf = << >>
    /\ res = NoCall
    /\ inbuf = << >>
    /\ out = << >>
    /\ calls = "none"
    /\ fed = 0
    /\ pbuf = << >>
    /\ pres = NoCall
    /\ encArg = [len |-> 0, seed |-> 0]
    /\ encRes = NoCall
    /\ bfRes = NoCall

\* The peer encodes one body onto the wire with FlipperCodec::encode; the
\* same body is given to build_frame.
Encode(id) ==
    /\ Len(frames) < MaxFrames
    /\ clean
    /\ calls = "none"
    /\ LET r == FlipperCodec_encode(Body(id), wire)
       IN  /\ wire' = r.buf
           /\ encRes' = r.res
           /\ frames' = IF r.res.kind = "Ok" THEN Append(frames, id) ELSE frames
           /\ ends' = IF r.res.kind = "Ok" THEN Append(ends, Len(r.buf)) ELSE ends
    /\ bfRes' = build_frame(Body(id))
    /\ encArg' = id
    /\ UNCHANGED << clean, pos, cbuf, res, inbuf, out, calls, fed, pbuf, pres >>
    /\ UNCHANGED << transportVars, splitVars, scannerVars >>

\* A peer that does not keep to the protocol puts raw bytes on the wire.
InjectRaw(p) ==
    /\ clean
    /\ calls = "none"
    /\ wire' = wire \o p
    /\ clean' = FALSE
    /\ UNCHANGED << frames, ends, pos, cbuf, res, inbuf, out, calls, fed,
                    pbuf, pres, encArg, encRes, bfRes >>
    /\ UNCHANGED << transportVars, splitVars, scannerVars >>

\* Chunk boundaries the model tries.
IsCut(p) ==
    \/ p \in CutOffsets
    \/ p - Len(wire) \in CutOffsets
    \/ \E k \in 1..Len(ends) : p - ends[k] \in CutOffsets

\* The next n bytes of the wire arrive as one chunk: FlipperCodec::decode is
\* called with it, and the packetizer is filled with it and polled.
Feed(n) ==
    /\ pos + n <= Len(wire)
    /\ IsCut(pos + n)
    /\ LET chunk == SubSeq(wire, pos + 1, pos + n)
           d     == FlipperCodec_decode(cbuf, chunk)
           p     == StreamPacketizer_poll(StreamPacketizer_fill_buffer(pbuf, chunk))
       IN  /\ cbuf' = d.buf
           /\ res' = d.res
           /\ inbuf' = d.inbuf
           /\ out' = IF d.res.kind = "Some" THEN Append(out, d.res.frame) ELSE out
           /\ pbuf' = p.buf
           /\ pres' = p.res
    /\ pos' = pos + n
    /\ fed' = n
    /\ calls' = IF calls = "none" THEN "one" ELSE "more"
    /\ UNCHANGED << wire, frames, ends, clean, encArg, encRes, bfRes >>
    /\ UNCHANGED << transportVars, splitVars, scannerVars >>

NextCodec ==
    \/ \E id \in BodyIds : Encode(id)
    \/ \E p \in RawPrefixes : InjectRaw(p)
    \/ \E n \in 0..(Len(wire) - pos) : Feed(n)

SpecCodec == InitCodec /\ [][NextCodec]_vars

\* The bytes begin with a length prefix over MAX_FRAME_LENGTH.
OversizeHead(bytes) ==
    LET v == decode_var(bytes)
    IN  v.some /\ v.len > MAX_FRAME_LENGTH

(***************************************************************************)
(* Results of the transports' operations (error.rs).                       *)
(***************************************************************************)
Ok == [kind |-> "Ok"]

OkFrame(f) == [kind |-> "Ok", frame |-> f]

\* FlipperError::IOFailure(e.to_string())
IOFailure(msg) == [kind |-> "Err", err |-> "IOFailure", msg |-> msg]

\* FlipperError::BTFailure(e.to_string())
BTFailure(msg) == [kind |-> "Err", err |-> "BTFailure", msg |-> msg]

BTNoCharacteristics == [kind |-> "Err", err |-> "BTNoCharacteristics"]

\* The task aborts: an unwrap() or expect() on None or Err.
Panic == [kind |-> "Panic"]

(***************************************************************************)
(* transport/serial.rs: SerialTransport.                                   *)
(***************************************************************************)
\* drain_until_pattern: let mut buf = [0u8; 1024];
READ_BUF_SIZE == 1024

\* drain_until_pattern: if patternbuf.len() > 32 { keep the last 32 }
PATTERN_WINDOW == 32

\* "start_rpc_session\r"
START_RPC_SESSION == <<115, 116, 97, 114, 116, 95, 114, 112, 99, 95,
                       115, 101, 115, 115, 105, 111, 110, 13>>

\* "start_rpc_session\r\n"
START_RPC_ECHO == START_RPC_SESSION \o <<10>>

\* find_subsequence(haystack, needle): the first window of haystack equal
\* to needle.
find_subsequence(haystack, needle) ==
    LET hits == { i \in 0..(Len(haystack) - Len(needle)) :
                      SubSeq(haystack, i + 1, i + Len(needle)) = needle }
    IN  IF hits = {}
        THEN [some |-> FALSE]
        ELSE [some |-> TRUE, at |-> CHOOSE i \in hits : \A j \in hits : i <= j]

\* One turn of drain_until_pattern's loop with only the bytes of the last
\* read searched.
DrainTurn_noAccumulate(pbuf0, chunk, pattern) ==
    [patternbuf |-> chunk, found |-> find_subsequence(chunk, pattern).some]

\* One turn of drain_until_pattern's loop that returns on any read.
DrainTurn_anyRead(pbuf0, chunk, pattern) ==
    [patternbuf |-> pbuf0 \o chunk, found |-> TRUE]

\* One turn of drain_until_pattern's loop, after the read returned chunk:
\* the bytes are appended to patternbuf, patternbuf is cut to its last 32
\* bytes, and the pattern is searched in it.
DrainTurn(pbuf0, chunk, pattern) ==
    LET ext == pbuf0 \o chunk
        cut == IF Len(ext) > PATTERN_WINDOW
               THEN SubSeq(ext, Len(ext) - PATTERN_WINDOW + 1, Len(ext))
               ELSE ext
    IN  [patternbuf |-> cut, found |-> find_subsequence(cut, pattern).some]

\* Bytes of the noise: the four bytes of the prompt and a letter.
NoiseBytes == {10, 62, 58, 32, 65}

RECURSIVE SeqsUpTo(_, _)
SeqsUpTo(S, n) ==
    IF n = 0
    THEN { << >> }
    ELSE LET shorter == SeqsUpTo(S, n - 1)
         IN  shorter \cup { Append(q, b) : q \in { r \in shorter : Len(r) = n - 1 }, b \in S }

Junk(n) == [i \in 1..n |-> 65 + (i % 26)]

\* What the device emits before its prompt: every short sequence over
\* NoiseBytes, and long banners (around the 32-byte window and over the
\* 1024-byte read buffer) ending in part of a prompt or not.  The prompt
\* first appears where the noise ends.
Noises ==
    { q \in SeqsUpTo(NoiseBytes, MaxNoise) \cup
            { Junk(n) \o t : n \in {28, 29, 1030}, t \in { << >>, <<10, 62, 58>> } } :
        ~find_subsequence(q, PROMPT_PATTERN).some }

\* Sizes of the reads the model tries (a read returns 1..1024 bytes).
ReadSizes == (1..5) \cup {28, 29, 32, 33} \cup {READ_BUF_SIZE - 1, READ_BUF_SIZE}

\* Sizes of the reads Framed makes once the session runs.
FrameReads == 1..4

\* Bodies of the frames the device sends.
SmallIds == { [len |-> 1, seed |-> 7], [len |-> 2, seed |-> 128] }

\* The frames the serial device sends: the small ones and one that, with its
\* prefix, is longer than what the match window keeps beside the echo.
DeviceIds == SmallIds \cup { [len |-> 13, seed |-> 0] }

\* Bodies given to write_frame: small, at the limit, one over it.
WriteIds ==
    { [len |-> 1, seed |-> 7],
      [len |-> MAX_FRAME_LENGTH, seed |-> 0],
      [len |-> MAX_FRAME_LENGTH + 1, seed |-> 0] }

\* init: tokio_serial::new(..).open_native_async().unwrap()
SerialInitOpen(opened) ==
    /\ kind = "serial" /\ tpc = "new"
    /\ IF opened
       THEN /\ tpc' = "drain_prompt"
            /\ initRes' = initRes
       ELSE /\ tpc' = "panicked"
            /\ initRes' = Panic
    /\ UNCHANGED << kind, eof, iter, drained, discovered, nfed, dev, devMode, patternbuf, drainLeft, framed, chars,
                    subscribed, tcodec, readable, rres, wres, warg, link,
                    nread, busy, lastRead, nemit >>
    /\ UNCHANGED << codecVars, splitVars, scannerVars >>

\* init, in drain_until_pattern: one read of n bytes and the search.  When
\* the second drain returns, init sets self.framed and returns Ok.
SerialDrainRead(n) ==
    /\ kind = "serial" /\ tpc \in {"drain_prompt", "drain_echo"}
    /\ n <= Len(dev)
    /\ LET pattern == IF tpc = "drain_prompt" THEN PROMPT_PATTERN ELSE START_RPC_ECHO
           t       == DrainTurn(patternbuf, SubSeq(dev, 1, n), pattern)
           rest    == Drain(dev, n)
       IN  /\ dev' = rest
           /\ lastRead' = IF tpc # "drain_prompt" THEN 0
                          ELSE IF n < Len(pattern) THEN n ELSE Len(pattern)
           /\ drained' = IF tpc = "drain_echo" THEN drained + n ELSE drained
           /\ IF ~t.found
              THEN /\ patternbuf' = t.patternbuf
                   /\ UNCHANGED << tpc, drainLeft, framed, initRes >>
              ELSE /\ patternbuf' = << >>
                   /\ IF tpc = "drain_prompt"
                      THEN /\ tpc' = "write_cmd"
                           /\ drainLeft' = Len(rest)
                           /\ UNCHANGED << framed, initRes >>
                      ELSE /\ tpc' = "ready"
                           /\ framed' = TRUE
                           /\ initRes' = Ok
                           /\ UNCHANGED drainLeft
    /\ UNCHANGED << kind, eof, iter, discovered, nfed, devMode, chars,
                    subscribed, tcodec, readable, rres, wres, warg, link,
                    nread, busy, nemit >>
    /\ UNCHANGED << codecVars, splitVars, scannerVars >>

\* init, in drain_until_pattern: port.read(..).await.unwrap() on a failed read.
SerialDrainReadFail ==
    /\ kind = "serial" /\ tpc \in {"drain_prompt", "drain_echo"}
    /\ tpc' = "panicked"
    /\ initRes' = Panic
    /\ UNCHANGED << kind, eof, iter, drained, discovered, nfed, dev, devMode, patternbuf, drainLeft, framed, chars,
                    subscribed, tcodec, readable, rres, wres, warg, link,
                    nread, busy, lastRead, nemit >>
    /\ UNCHANGED << codecVars, splitVars, scannerVars >>

\* init: write_raw(port, "start_rpc_session\r").  A failed write returns
\* IOFailure from init; a failed flush aborts.  The device echoes the command
\* with a line feed and enters RPC mode.
SerialWriteCmd(outcome) ==
    /\ kind = "serial" /\ tpc = "write_cmd"
    /\ CASE outcome = "ok" ->
               /\ tpc' = "drain_echo"
               /\ dev' = dev \o START_RPC_ECHO
               /\ devMode' = "rpc"
               /\ initRes' = initRes
         [] outcome = "write_fail" ->
               /\ tpc' = "failed"
               /\ initRes' = IOFailure("write")
               /\ UNCHANGED << dev, devMode >>
         [] outcome = "flush_fail" ->
               /\ tpc' = "panicked"
               /\ initRes' = Panic
               /\ UNCHANGED << dev, devMode >>
    /\ lastRead' = 0
    /\ UNCHANGED << kind, eof, iter, drained, discovered, nfed, patternbuf, drainLeft, framed, chars, subscribed,
                    tcodec, readable, rres, wres, warg, link, nread, busy,
                    nemit >>
    /\ UNCHANGED << codecVars, splitVars, scannerVars >>

\* The serial device, in RPC mode, sends one frame; it may do so as soon as
\* it has echoed the command.
SerialDeviceSend(id) ==
    /\ kind = "serial" /\ devMode = "rpc" /\ ~eof
    /\ nemit < MaxEmit
    /\ dev' = dev \o encode_var(id.len) \o Body(id)
    /\ nemit' = nemit + 1
    /\ UNCHANGED << kind, eof, iter, drained, discovered, nfed, tpc, devMode, patternbuf, drainLeft, framed, chars,
                    subscribed, tcodec, readable, initRes, rres, wres, warg,
                    link, nread, busy, lastRead >>
    /\ UNCHANGED << codecVars, splitVars, scannerVars >>

\* Bytes of a length prefix over MAX_FRAME_LENGTH (1537).
DevicePrefixes == { <<129, 12>> }

\* The serial device, in RPC mode, sends a length prefix over
\* MAX_FRAME_LENGTH.
SerialDeviceSendRaw(p) ==
    /\ kind = "serial" /\ devMode = "rpc" /\ ~eof
    /\ nemit < MaxEmit
    /\ dev' = dev \o p
    /\ nemit' = nemit + 1
    /\ UNCHANGED << kind, eof, iter, drained, discovered, nfed, tpc, devMode,
                    patternbuf, drainLeft, framed, chars, subscribed, tcodec,
                    readable, initRes, rres, wres, warg, link, nread, busy,
                    lastRead >>
    /\ UNCHANGED << codecVars, splitVars, scannerVars >>

\* The link ends while a read_frame waits on it: the serial port reaches
\* end-of-stream (the device is gone), or the notification streams of the
\* peripheral yield no item any more.
LinkEnd ==
    /\ kind \in {"serial", "ble"}
    /\ initRes = Ok /\ busy /\ ~eof
    /\ eof' = TRUE
    /\ UNCHANGED << kind, iter, drained, discovered, nfed, tpc, dev, devMode,
                    patternbuf, drainLeft, framed, chars, subscribed, tcodec,
                    readable, initRes, rres, wres, warg, link, nread, busy,
                    lastRead, nemit >>
    /\ UNCHANGED << codecVars, splitVars, scannerVars >>

\* What write_frame put on the link: the number of bytes and the body
\* length their prefix announces.
OnLink(bytes) == [bytes |-> Len(bytes), body |-> decode_var(bytes).len]

\* read_frame (SerialTransport): self.framed.as_mut().unwrap(), then the
\* call waits in Framed::next().
SerialReadFrameCall ==
    /\ kind = "serial" /\ ~busy /\ tpc \in {"new", "failed", "ready", "split"}
    /\ IF framed
       THEN /\ busy' = TRUE
            /\ UNCHANGED << tpc, rres >>
       ELSE /\ tpc' = "panicked"
            /\ rres' = Panic
            /\ busy' = busy
    /\ UNCHANGED << kind, eof, iter, drained, discovered, nfed, dev, devMode, patternbuf, drainLeft, framed, chars,
                    subscribed, tcodec, readable, initRes, wres, warg, link,
                    nread, lastRead, nemit >>
    /\ UNCHANGED << codecVars, splitVars, scannerVars >>

\* What read_frame does with the item Framed::next() yields for a decode
\* result d: Some(Ok(frame)) is returned, Some(Err(e)) aborts in x.unwrap().
SerialReadItem(d, nowReadable) ==
    /\ tcodec' = d.buf
    /\ CASE d.res.kind = "Some" ->
               /\ rres' = OkFrame(d.res.frame)
               /\ nread' = nread + 1
               /\ busy' = FALSE
               /\ readable' = TRUE
               /\ tpc' = tpc
         [] d.res.kind = "None" ->
               /\ readable' = nowReadable
               /\ UNCHANGED << rres, nread, busy, tpc >>
         [] d.res.kind = "Err" ->
               /\ rres' = Panic
               /\ tpc' = "panicked"
               /\ busy' = FALSE
               /\ UNCHANGED << nread, readable >>

\* Framed::next() after it returned a frame: decode is called again on what
\* the codec retained, before any read.
SerialReadPoll ==
    /\ kind = "serial" /\ busy /\ readable
    /\ SerialReadItem(FlipperCodec_decode(tcodec, << >>), FALSE)
    /\ UNCHANGED << kind, eof, iter, drained, discovered, nfed, dev, devMode, patternbuf, drainLeft, framed, chars,
                    subscribed, initRes, wres, warg, link, lastRead, nemit >>
    /\ UNCHANGED << codecVars, splitVars, scannerVars >>

\* Framed::next(): n bytes are read from the port and given to decode.
SerialReadBytes(n) ==
    /\ kind = "serial" /\ busy /\ ~readable
    /\ n <= Len(dev)
    /\ SerialReadItem(FlipperCodec_decode(tcodec, SubSeq(dev, 1, n)), FALSE)
    /\ dev' = Drain(dev, n)
    /\ UNCHANGED << kind, eof, iter, drained, discovered, nfed, devMode, patternbuf, drainLeft, framed, chars,
                    subscribed, initRes, wres, warg, link, lastRead, nemit >>
    /\ UNCHANGED << codecVars, splitVars, scannerVars >>

\* Framed::next(): the read fails; the item is Some(Err(e)) and x.unwrap() aborts.
SerialReadFail ==
    /\ kind = "serial" /\ busy /\ ~readable
    /\ rres' = Panic
    /\ tpc' = "panicked"
    /\ busy' = FALSE
    /\ UNCHANGED << kind, eof, iter, drained, discovered, nfed, dev, devMode, patternbuf, drainLeft, framed, chars,
                    subscribed, tcodec, readable, initRes, wres, warg, link,
                    nread, lastRead, nemit >>
    /\ UNCHANGED << codecVars, splitVars, scannerVars >>

\* Framed::next() at end-of-stream: the read returns no byte, decode finds
\* no frame in what the codec retained, and the item is None.  read_frame
\* matches None => {} and calls next() again at once.
SerialReadEof ==
    /\ kind = "serial" /\ busy /\ ~readable
    /\ eof /\ dev = << >>
    /\ SerialReadItem(FlipperCodec_decode(tcodec, << >>), FALSE)
    /\ iter' = 1 - iter
    /\ UNCHANGED << kind, eof, drained, discovered, nfed, dev, devMode,
                    patternbuf, drainLeft, framed, chars, subscribed, initRes,
                    wres, warg, link, lastRead, nemit >>
    /\ UNCHANGED << codecVars, splitVars, scannerVars >>

\* split_stream (SerialTransport): self.framed.unwrap().into_inner() gives
\* the port and drops the Framed with its codec; the receiver half gets a
\* FramedRead with FlipperCodec::default().
SerialSplitStream ==
    /\ kind = "serial" /\ ~busy /\ tpc \in {"new", "failed", "ready"}
    /\ IF framed
       THEN /\ tpc' = "split"
            /\ tcodec' = << >>
            /\ readable' = FALSE
       ELSE /\ tpc' = "panicked"
            /\ UNCHANGED << tcodec, readable >>
    /\ UNCHANGED << kind, eof, iter, drained, discovered, nfed, dev, devMode,
                    patternbuf, drainLeft, framed, chars, subscribed, initRes,
                    rres, wres, warg, link, nread, busy, lastRead, nemit >>
    /\ UNCHANGED << codecVars, splitVars, scannerVars >>

\* write_frame (SerialTransport, SerialFrameSender): Framed::send(data)
\* encodes into the write buffer and flushes it to the port; any error comes
\* back as IOFailure(e.to_string()).  The send path and the receive path
\* share no state; the model lets the writes go out before the device sends.
SerialWriteFrame(id, written) ==
    /\ kind = "serial" /\ ~busy /\ tpc \in {"new", "failed", "ready"}
    /\ nemit = 0
    /\ Len(link) < MaxWrites
    /\ warg' = id.len
    /\ IF ~framed
       THEN /\ tpc' = "panicked"
            /\ wres' = Panic
            /\ link' = link
       ELSE LET e == FlipperCodec_encode(Body(id), << >>)
            IN  /\ tpc' = tpc
                /\ IF e.res.kind = "Err"
                   THEN /\ wres' = IOFailure(e.res.msg)
                        /\ link' = link
                   ELSE IF written
                   THEN /\ wres' = Ok
                        /\ link' = Append(link, OnLink(e.buf))
                   ELSE /\ wres' = IOFailure("write")
                        /\ link' = link
    /\ UNCHANGED << kind, eof, iter, drained, discovered, nfed, dev, devMode, patternbuf, drainLeft, framed, chars,
                    subscribed, tcodec, readable, initRes, rres, nread, busy,
                    lastRead, nemit >>
    /\ UNCHANGED << codecVars, splitVars, scannerVars >>

(***************************************************************************)
(* transport/ble.rs: BTLETransport.                                        *)
(***************************************************************************)
InitOutcomes ==
    { "connect_fail", "discover_fail", "subscribe_fail", "notifications_fail",
      "ok" }

\* BLE_RX_CHARACTERISTIC_UUID, BLE_TX_CHARACTERISTIC_UUID and
\* BLE_OVERFLOW_CHARACTERISTIC_UUID, by name.
AllCharacteristics == {"rx", "tx", "ovf"}

\* The three finds of init with the one for ovf left out.
HasAllCharacteristics_noOvf(found) == {"rx", "tx"} \subseteq found

\* init: chars.iter().find(..).ok_or(BTNoCharacteristics)? for rx, tx, ovf.
HasAllCharacteristics(found) == AllCharacteristics \subseteq found

\* init: connect, discover_services, find rx, tx and ovf among the
\* characteristics the peripheral reports (found),
\* subscribe(&rx).await.unwrap(), self.chars = Some(..), then
\* self.notification_stream = Some(notifications().await?).
BleInit(outcome, found) ==
    /\ kind = "ble" /\ tpc = "new" /\ ~busy
    /\ CASE outcome \in {"connect_fail", "discover_fail"} ->
               /\ initRes' = BTFailure(outcome)
               /\ tpc' = "failed"
               /\ UNCHANGED << chars, subscribed, discovered >>
         [] OTHER ->
               /\ discovered' = found
               /\ IF ~HasAllCharacteristics(found)
                  THEN /\ initRes' = BTNoCharacteristics
                       /\ tpc' = "failed"
                       /\ UNCHANGED << chars, subscribed >>
                  ELSE CASE outcome = "subscribe_fail" ->
                              /\ initRes' = Panic
                              /\ tpc' = "panicked"
                              /\ UNCHANGED << chars, subscribed >>
                         [] outcome = "notifications_fail" ->
                              /\ subscribed' = TRUE
                              /\ chars' = TRUE
                              /\ initRes' = IOFailure("notifications")
                              /\ tpc' = "failed"
                         [] outcome = "ok" ->
                              /\ subscribed' = TRUE
                              /\ chars' = TRUE
                              /\ initRes' = Ok
                              /\ tpc' = "ready"
    /\ UNCHANGED << kind, eof, iter, drained, nfed, dev, devMode, patternbuf, drainLeft, framed,
                    tcodec, readable, rres, wres, warg, link, nread, busy,
                    lastRead, nemit >>
    /\ UNCHANGED << codecVars, splitVars, scannerVars >>

WriteOutcomes == { "ok", "ovf_fail", "ovf_short", "tx_fail" }

\* write_frame (BTLETransport): self.chars.as_ref().unwrap(),
\* self.codec.encode(..).unwrap(), the ovf read with .unwrap() and
\* .try_into().unwrap(), then the tx write, whose error is returned.
BleWriteFrame(id, outcome) ==
    /\ kind = "ble" /\ ~busy /\ tpc \in {"new", "failed", "ready"}
    /\ Len(link) < MaxWrites
    /\ warg' = id.len
    /\ LET e == FlipperCodec_encode(Body(id), << >>)
       IN  IF ~chars \/ e.res.kind = "Err" \/ outcome \in {"ovf_fail", "ovf_short"}
           THEN /\ tpc' = "panicked"
                /\ wres' = Panic
                /\ link' = link
           ELSE IF outcome = "tx_fail"
           THEN /\ tpc' = tpc
                /\ wres' = IOFailure("write")
                /\ link' = link
           ELSE /\ tpc' = tpc
                /\ wres' = Ok
                /\ link' = Append(link, OnLink(e.buf))
    /\ UNCHANGED << kind, eof, iter, drained, discovered, nfed, dev, devMode, patternbuf, drainLeft, framed, chars,
                    subscribed, tcodec, readable, initRes, rres, nread, busy,
                    lastRead, nemit >>
    /\ UNCHANGED << codecVars, splitVars, scannerVars >>

\* read_frame going to the notifications without looking at the codec.
BTLE_drain_codec_skip(self_buf) ==
    [res |-> NoFrame, buf |-> self_buf, inbuf |-> << >>]

\* read_frame (BTLETransport, BTLEFrameReceiver), "Empty the codec first":
\* let mut buf = BytesMut::new(); self.codec.decode(&mut buf)
BTLE_drain_codec(self_buf) == FlipperCodec_decode(self_buf, << >>)

\* read_frame (BTLETransport), up to its first wait: a frame the codec
\* already holds is returned; otherwise notifications() is called (its error
\* is returned) and the call waits for the next item.
BleReadFrameCall(streamOk) ==
    /\ kind = "ble" /\ ~busy /\ tpc \in {"new", "failed", "ready"}
    /\ LET d == BTLE_drain_codec(tcodec)
       IN  /\ tcodec' = d.buf
           /\ IF d.res.kind = "Some"
              THEN /\ rres' = OkFrame(d.res.frame)
                   /\ nread' = nread + 1
                   /\ busy' = FALSE
              ELSE IF streamOk
              THEN /\ busy' = TRUE
                   /\ UNCHANGED << rres, nread >>
              ELSE /\ rres' = IOFailure("notifications")
                   /\ busy' = FALSE
                   /\ nread' = nread
    /\ UNCHANGED << kind, eof, iter, drained, discovered, nfed, tpc, dev, devMode, patternbuf, drainLeft, framed,
                    chars, subscribed, readable, initRes, wres, warg, link,
                    lastRead, nemit >>
    /\ UNCHANGED << codecVars, splitVars, scannerVars >>

\* read_frame (BTLETransport), in its loop while the streams have ended:
\* notification.next() yields None and the loop continues with a new call
\* of notifications(), whose failure is returned as IOFailure.
BleStreamEnded(streamOk) ==
    /\ kind = "ble" /\ busy /\ eof
    /\ IF streamOk
       THEN /\ iter' = 1 - iter
            /\ UNCHANGED << rres, busy >>
       ELSE /\ rres' = IOFailure("notifications")
            /\ busy' = FALSE
            /\ iter' = iter
    /\ UNCHANGED << kind, eof, drained, discovered, nfed, tpc, dev, devMode,
                    patternbuf, drainLeft, framed, chars, subscribed, tcodec,
                    readable, initRes, wres, warg, link, nread, lastRead,
                    nemit >>
    /\ UNCHANGED << codecVars, splitVars, scannerVars >>

\* Payloads of the notifications: one frame, two frames, the first part of
\* a frame, its last byte, and a prefix over MAX_FRAME_LENGTH.
Payloads == { <<1, 7>>, <<1, 7, 1, 8>>, <<2, 7>>, <<8>>, <<129, 12>> }

\* The peripheral notifies a value of the subscribed rx characteristic.  A
\* waiting read_frame takes it from its stream and decodes it: a frame is
\* returned, a decode error is returned as IOFailure, and otherwise the loop
\* calls notifications() again.  With no read_frame waiting, no stream of
\* read_frame is open and the value does not reach the codec.
BleNotify(payload, streamOk) ==
    /\ kind = "ble" /\ subscribed /\ ~eof
    /\ nemit < MaxEmit
    /\ nemit' = nemit + 1
    /\ IF ~busy
       THEN UNCHANGED << nfed, tcodec, rres, nread, busy >>
       ELSE LET d == FlipperCodec_decode(tcodec, payload)
            IN  /\ tcodec' = d.buf
                /\ nfed' = nfed + 1
                /\ CASE d.res.kind = "Some" ->
                           /\ rres' = OkFrame(d.res.frame)
                           /\ nread' = nread + 1
                           /\ busy' = FALSE
                     [] d.res.kind = "Err" ->
                           /\ rres' = IOFailure(d.res.msg)
                           /\ busy' = FALSE
                           /\ nread' = nread
                     [] d.res.kind = "None" ->
                           IF streamOk
                           THEN UNCHANGED << rres, nread, busy >>
                           ELSE /\ rres' = IOFailure("notifications")
                                /\ busy' = FALSE
                                /\ nread' = nread
    /\ UNCHANGED << kind, eof, iter, drained, discovered, tpc, dev, devMode, patternbuf, drainLeft, framed,
                    chars, subscribed, readable, initRes, wres, warg, link,
                    lastRead >>
    /\ UNCHANGED << codecVars, splitVars, scannerVars >>

\* split_stream: Arc::new(RwLock::new(self.flipper)),
\* self.chars.expect("Not initialized!"), and two halves, each with
\* FlipperCodec::default().
SplitStream ==
    /\ kind = "ble" /\ ~busy /\ tpc \in {"new", "failed", "ready"}
    /\ IF chars
       THEN /\ tpc' = "split"
            /\ tcodec' = << >>
            /\ lock' = RwLock_new
       ELSE /\ tpc' = "panicked"
            /\ UNCHANGED << tcodec, lock >>
    /\ UNCHANGED << kind, eof, iter, drained, discovered, nfed, dev, devMode, patternbuf, drainLeft, framed, chars,
                    subscribed, readable, initRes, rres, wres, warg, link,
                    nread, busy, lastRead, nemit >>
    /\ UNCHANGED << spc, rpc, sframe, rdoneMidWrite >>
    /\ UNCHANGED << codecVars, scannerVars >>

(***************************************************************************)
(* One transport object, serial or BLE, from construction on.              *)
(***************************************************************************)
\* SerialTransport::new / BTLETransport::new; the serial device has emitted
\* its noise and its prompt.
InitTransport ==
    /\ CodecIdle
    /\ SplitIdle
    /\ ScannerIdle
    /\ kind \in {"serial", "ble"}
    /\ tpc = "new"
    /\ dev \in IF kind = "serial"
               THEN { q \o PROMPT_PATTERN : q \in Noises }
               ELSE { << >> }
    /\ devMode = "shell"
    /\ patternbuf = << >>
    /\ drainLeft = -1
    /\ framed = FALSE
    /\ chars = FALSE
    /\ subscribed = FALSE
    /\ tcodec = << >>
    /\ readable = FALSE
    /\ initRes = NoCall
    /\ rres = NoCall
    /\ wres = NoCall
    /\ warg = 0
    /\ link = << >>
    /\ nread = 0
    /\ busy = FALSE
    /\ lastRead = 0
    /\ nemit = 0
    /\ discovered = {}
    /\ nfed = 0
    /\ eof = FALSE
    /\ iter = 0
    /\ drained = 0

NextTransport ==
    \/ \E opened \in BOOLEAN : SerialInitOpen(opened)
    \/ \E n \in ReadSizes : SerialDrainRead(n)
    \/ SerialDrainReadFail
    \/ \E o \in {"ok", "write_fail", "flush_fail"} : SerialWriteCmd(o)
    \/ \E id \in DeviceIds : SerialDeviceSend(id)
    \/ SerialReadFrameCall
    \/ SerialReadPoll
    \/ \E n \in FrameReads : SerialReadBytes(n)
    \/ SerialReadFail
    \/ \E id \in WriteIds, w \in BOOLEAN : SerialWriteFrame(id, w)
    \/ \E o \in InitOutcomes, found \in SUBSET AllCharacteristics : BleInit(o, found)
    \/ \E id \in WriteIds, o \in WriteOutcomes : BleWriteFrame(id, o)
    \/ \E ok \in BOOLEAN : BleReadFrameCall(ok)
    \/ \E p \in Payloads, ok \in BOOLEAN : BleNotify(p, ok)
    \/ \E p \in DevicePrefixes : SerialDeviceSendRaw(p)
    \/ LinkEnd
    \/ SerialReadEof
    \/ \E ok \in BOOLEAN : BleStreamEnded(ok)
    \/ SerialSplitStream
    \/ SplitStream

SpecTransport == InitTransport /\ [][NextTransport]_vars

\* The steps of a running read_frame that need no event from outside: a
\* poll of Framed::next() that is ready at once (a decode of retained bytes,
\* a read of bytes the port holds, the end of the stream) and the renewed
\* notifications() call after an ended stream.  The task that runs
\* read_frame takes them.
ReadLoopFairness ==
    /\ WF_vars(SerialReadPoll)
    /\ WF_vars(\E n \in FrameReads : SerialReadBytes(n))
    /\ WF_vars(SerialReadEof)
    /\ WF_vars(\E ok \in BOOLEAN : BleStreamEnded(ok))

SpecTransportLive == InitTransport /\ [][NextTransport]_vars /\ ReadLoopFairness

(***************************************************************************)
(* transport/ble.rs: split_stream, BTLEFrameSender and BTLEFrameReceiver   *)
(* around Arc<RwLock<Peripheral>>.                                         *)
(***************************************************************************)
\* Bodies given to the sender half: a small one and one over the limit.
SplitWriteIds ==
    { [len |-> 1, seed |-> 7], [len |-> MAX_FRAME_LENGTH + 1, seed |-> 0] }

\* Payloads notified to the receiver half: a frame, the first part of a
\* frame, and a prefix over MAX_FRAME_LENGTH.
SplitPayloads == { <<1, 7>>, <<2, 7>>, <<129, 12>> }

\* A lock on which read() also waits for the other readers.
RwLock_read_ready_exclusive(l) == ~l.writer /\ l.readers = {}

\* RwLock::read().await returns once no write guard is out.
RwLock_read_ready(l) == ~l.writer

\* RwLock::read(): half h gets a read guard.
RwLock_read(l, h) == [l EXCEPT !.readers = @ \cup {h}]

\* A guard that is never given back.
RwLockReadGuard_drop_leak(l, h) == l

\* The read guard of half h is dropped: at the end of the statement that
\* took it, or when the task unwinds.
RwLockReadGuard_drop(l, h) == [l EXCEPT !.readers = @ \ {h}]

SenderInCall == spc \in {"lock_ovf", "ovf", "lock_tx", "tx"}

ReceiverInCall == rpc \in {"lock", "notif", "wait"}

\* write_frame (BTLEFrameSender), to its first wait:
\* self.codec.encode(data, &mut frame).unwrap(), then self.flipper.read().
SenderWriteFrame(id) ==
    /\ tpc = "split" /\ spc = "idle"
    /\ Len(link) < MaxWrites
    /\ warg' = id.len
    /\ LET e == FlipperCodec_encode(Body(id), << >>)
       IN  IF e.res.kind = "Err"
           THEN /\ spc' = "panicked"
                /\ wres' = Panic
                /\ sframe' = sframe
           ELSE /\ spc' = "lock_ovf"
                /\ sframe' = OnLink(e.buf)
                /\ wres' = wres
    /\ UNCHANGED << kind, eof, iter, drained, discovered, nfed, tpc, dev, devMode, patternbuf, drainLeft, framed,
                    chars, subscribed, tcodec, readable, initRes, rres, link,
                    nread, busy, lastRead, nemit >>
    /\ UNCHANGED << rpc, lock, rdoneMidWrite >>
    /\ UNCHANGED << codecVars, scannerVars >>

\* write_frame (BTLEFrameSender): self.flipper.read().await returns a guard
\* and the provider call (the ovf read, then the tx write) starts.
SenderLock ==
    /\ tpc = "split" /\ spc \in {"lock_ovf", "lock_tx"}
    /\ RwLock_read_ready(lock)
    /\ lock' = RwLock_read(lock, "sender")
    /\ spc' = IF spc = "lock_ovf" THEN "ovf" ELSE "tx"
    /\ UNCHANGED transportVars
    /\ UNCHANGED << rpc, sframe, rdoneMidWrite >>
    /\ UNCHANGED << codecVars, scannerVars >>

\* write_frame (BTLEFrameSender): the provider completes the read of ovf;
\* .unwrap() on its error and .try_into().unwrap() on a value that is not
\* four bytes abort.  The guard is dropped with the statement.
SenderOvfDone(outcome) ==
    /\ tpc = "split" /\ spc = "ovf"
    /\ lock' = RwLockReadGuard_drop(lock, "sender")
    /\ IF outcome = "ok"
       THEN /\ spc' = "lock_tx"
            /\ UNCHANGED << wres, sframe >>
       ELSE /\ spc' = "panicked"
            /\ wres' = Panic
            /\ sframe' = NoBytes
    /\ UNCHANGED << kind, eof, iter, drained, discovered, nfed, tpc, dev, devMode, patternbuf, drainLeft, framed,
                    chars, subscribed, tcodec, readable, initRes, rres, warg,
                    link, nread, busy, lastRead, nemit >>
    /\ UNCHANGED << rpc, rdoneMidWrite >>
    /\ UNCHANGED << codecVars, scannerVars >>

\* write_frame (BTLEFrameSender): the provider completes the write to tx;
\* its error is returned as IOFailure.  The guard is dropped with the
\* statement.
SenderTxDone(written) ==
    /\ tpc = "split" /\ spc = "tx"
    /\ lock' = RwLockReadGuard_drop(lock, "sender")
    /\ spc' = "idle"
    /\ sframe' = NoBytes
    /\ IF written
       THEN /\ link' = Append(link, sframe)
            /\ wres' = Ok
       ELSE /\ link' = link
            /\ wres' = IOFailure("write")
    /\ UNCHANGED << kind, eof, iter, drained, discovered, nfed, tpc, dev, devMode, patternbuf, drainLeft, framed,
                    chars, subscribed, tcodec, readable, initRes, rres, warg,
                    nread, busy, lastRead, nemit >>
    /\ UNCHANGED << rpc, rdoneMidWrite >>
    /\ UNCHANGED << codecVars, scannerVars >>

\* read_frame (BTLEFrameReceiver), to its first wait: a frame the codec
\* holds is returned, otherwise the loop starts with self.flipper.read().
ReceiverReadFrame ==
    /\ tpc = "split" /\ rpc = "idle"
    /\ LET d == BTLE_drain_codec(tcodec)
       IN  /\ tcodec' = d.buf
           /\ IF d.res.kind = "Some"
              THEN /\ rres' = OkFrame(d.res.frame)
                   /\ nread' = nread + 1
                   /\ rdoneMidWrite' = (rdoneMidWrite \/ SenderInCall)
                   /\ rpc' = rpc
              ELSE /\ rpc' = "lock"
                   /\ UNCHANGED << rres, nread, rdoneMidWrite >>
    /\ UNCHANGED << kind, eof, iter, drained, discovered, nfed, tpc, dev, devMode, patternbuf, drainLeft, framed,
                    chars, subscribed, readable, initRes, wres, warg, link,
                    busy, lastRead, nemit >>
    /\ UNCHANGED << spc, lock, sframe >>
    /\ UNCHANGED << codecVars, scannerVars >>

\* read_frame (BTLEFrameReceiver): self.flipper.read().await returns a guard
\* and notifications() is called.
ReceiverLock ==
    /\ tpc = "split" /\ rpc = "lock"
    /\ RwLock_read_ready(lock)
    /\ lock' = RwLock_read(lock, "receiver")
    /\ rpc' = "notif"
    /\ UNCHANGED transportVars
    /\ UNCHANGED << spc, sframe, rdoneMidWrite >>
    /\ UNCHANGED << codecVars, scannerVars >>

\* read_frame (BTLEFrameReceiver): notifications() completes; its error is
\* returned as IOFailure, its stream is awaited with .take(1).  The guard is
\* dropped with the let statement, before notification.next().await.
ReceiverStream(streamOk) ==
    /\ tpc = "split" /\ rpc = "notif"
    /\ lock' = RwLockReadGuard_drop(lock, "receiver")
    /\ IF streamOk
       THEN /\ rpc' = "wait"
            /\ rres' = rres
       ELSE /\ rpc' = "idle"
            /\ rres' = IOFailure("notifications")
    /\ UNCHANGED << kind, eof, iter, drained, discovered, nfed, tpc, dev, devMode, patternbuf, drainLeft, framed,
                    chars, subscribed, tcodec, readable, initRes, wres, warg,
                    link, nread, busy, lastRead, nemit >>
    /\ UNCHANGED << spc, sframe, rdoneMidWrite >>
    /\ UNCHANGED << codecVars, scannerVars >>

\* read_frame (BTLEFrameReceiver): the stream ends (notif == None) and the
\* loop starts over.
ReceiverStreamEnded ==
    /\ tpc = "split" /\ rpc = "wait"
    /\ rpc' = "lock"
    /\ UNCHANGED transportVars
    /\ UNCHANGED << spc, lock, sframe, rdoneMidWrite >>
    /\ UNCHANGED << codecVars, scannerVars >>

\* The peripheral notifies a value of rx.  A read_frame waiting on its
\* stream decodes it: a frame is returned, a decode error is returned as
\* IOFailure, otherwise the loop starts over.  With no read_frame waiting on
\* a stream the value reaches nobody.
SplitNotify(payload) ==
    /\ tpc = "split" /\ subscribed
    /\ nemit < MaxEmit
    /\ nemit' = nemit + 1
    /\ IF rpc # "wait"
       THEN UNCHANGED << nfed, tcodec, rres, nread, rpc, rdoneMidWrite >>
       ELSE LET d == FlipperCodec_decode(tcodec, payload)
            IN  /\ tcodec' = d.buf
                /\ nfed' = nfed + 1
                /\ CASE d.res.kind = "Some" ->
                           /\ rres' = OkFrame(d.res.frame)
                           /\ nread' = nread + 1
                           /\ rdoneMidWrite' = (rdoneMidWrite \/ SenderInCall)
                           /\ rpc' = "idle"
                     [] d.res.kind = "Err" ->
                           /\ rres' = IOFailure(d.res.msg)
                           /\ rpc' = "idle"
                           /\ UNCHANGED << nread, rdoneMidWrite >>
                     [] d.res.kind = "None" ->
                           /\ rpc' = "lock"
                           /\ UNCHANGED << rres, nread, rdoneMidWrite >>
    /\ UNCHANGED << kind, eof, iter, drained, discovered, tpc, dev, devMode, patternbuf, drainLeft, framed,
                    chars, subscribed, readable, initRes, wres, warg, link,
                    busy, lastRead >>
    /\ UNCHANGED << spc, lock, sframe >>
    /\ UNCHANGED << codecVars, scannerVars >>

\* BTLETransport::new.
InitSplit ==
    /\ CodecIdle
    /\ SplitIdle
    /\ ScannerIdle
    /\ kind = "ble"
    /\ tpc = "new"
    /\ dev = << >>
    /\ devMode = "shell"
    /\ patternbuf = << >>
    /\ drainLeft = -1
    /\ framed = FALSE
    /\ chars = FALSE
    /\ subscribed = FALSE
    /\ tcodec = << >>
    /\ readable = FALSE
    /\ initRes = NoCall
    /\ rres = NoCall
    /\ wres = NoCall
    /\ warg = 0
    /\ link = << >>
    /\ nread = 0
    /\ busy = FALSE
    /\ lastRead = 0
    /\ nemit = 0
    /\ discovered = {}
    /\ nfed = 0
    /\ eof = FALSE
    /\ iter = 0
    /\ drained = 0

NextSplit ==
    \/ \E o \in InitOutcomes, found \in SUBSET AllCharacteristics : BleInit(o, found)
    \/ SplitStream
    \/ \E id \in SplitWriteIds : SenderWriteFrame(id)
    \/ SenderLock
    \/ \E o \in {"ok", "ovf_fail", "ovf_short"} : SenderOvfDone(o)
    \/ \E w \in BOOLEAN : SenderTxDone(w)
    \/ ReceiverReadFrame
    \/ ReceiverLock
    \/ \E ok \in BOOLEAN : ReceiverStream(ok)
    \/ ReceiverStreamEnded
    \/ \E p \in SplitPayloads : SplitNotify(p)

\* Each half runs as its own task and is scheduled when it can run; the
\* provider completes the calls made to it.  Nothing makes the peripheral
\* notify.
SplitFairness ==
    /\ WF_vars(SenderLock)
    /\ WF_vars(\E o \in {"ok", "ovf_fail", "ovf_short"} : SenderOvfDone(o))
    /\ WF_vars(\E w \in BOOLEAN : SenderTxDone(w))
    /\ WF_vars(ReceiverLock)
    /\ WF_vars(\E ok \in BOOLEAN : ReceiverStream(ok))

SpecSplit == InitSplit /\ [][NextSplit]_vars /\ SplitFairness

(***************************************************************************)
(* transport/ble.rs: FlipperScanner.                                       *)
(***************************************************************************)
\* FlipperError::BTAdapterError(e.to_string())
BTAdapterError(msg) == [kind |-> "Err", err |-> "BTAdapterError", msg |-> msg]

\* FlipperError::OutOfBounds
OutOfBounds == [kind |-> "Err", err |-> "OutOfBounds"]

\* Values of idx given to set_adapter: every valid index, the length and
\* one past it.
SetIdxs == 0..(MaxAdapters + 1)

\* FlipperScanner::new: Manager::new() (error: BTFailure),
\* manager.adapters() (error: BTAdapterError), then the empty-list check.
ScannerNew(outcome) ==
    /\ newRes = NoCall
    /\ CASE outcome = "manager_fail" ->
               /\ newRes' = BTFailure("manager")
               /\ UNCHANGED << bt_adapters, adapter_idx >>
         [] outcome = "adapters_fail" ->
               /\ newRes' = BTAdapterError("adapters")
               /\ UNCHANGED << bt_adapters, adapter_idx >>
         [] outcome = "ok" ->
               IF sysAdapters = 0
               THEN /\ newRes' = BTFailure("Adapter does not exist.")
                    /\ UNCHANGED << bt_adapters, adapter_idx >>
               ELSE /\ newRes' = Ok
                    /\ bt_adapters' = sysAdapters
                    /\ adapter_idx' = 0
    /\ UNCHANGED << sysAdapters, setArg, setRes, nameRes, searchRes >>
    /\ UNCHANGED << codecVars, transportVars, splitVars >>

\* set_adapter accepting idx = self.bt_adapters.len().
FlipperScanner_set_adapter_offByOne(len, cur, idx) ==
    IF len >= idx
    THEN [res |-> Ok, adapter_idx |-> idx]
    ELSE [res |-> OutOfBounds, adapter_idx |-> cur]

\* set_adapter(idx) on a scanner with len adapters and cur selected:
\* if self.bt_adapters.len() > idx { self.adapter_idx = idx; Ok(()) }
\* else { Err(OutOfBounds) }
FlipperScanner_set_adapter(len, cur, idx) ==
    IF len > idx
    THEN [res |-> Ok, adapter_idx |-> idx]
    ELSE [res |-> OutOfBounds, adapter_idx |-> cur]

SetAdapter(idx) ==
    /\ newRes = Ok
    /\ LET r == FlipperScanner_set_adapter(bt_adapters, adapter_idx, idx)
       IN  /\ setRes' = r.res
           /\ adapter_idx' = r.adapter_idx
    /\ setArg' = idx
    /\ UNCHANGED << sysAdapters, bt_adapters, newRes, nameRes, searchRes >>
    /\ UNCHANGED << codecVars, transportVars, splitVars >>

\* get_adapter_name: adapter_info() of every adapter; an error comes back as
\* BTAdapterError.
GetAdapterName(infoOk) ==
    /\ newRes = Ok
    /\ nameRes' = IF infoOk
                  THEN [kind |-> "Ok", names |-> bt_adapters]
                  ELSE BTAdapterError("adapter_info")
    /\ UNCHANGED << sysAdapters, bt_adapters, adapter_idx, newRes, setArg,
                    setRes, searchRes >>
    /\ UNCHANGED << codecVars, transportVars, splitVars >>

\* search_flipper_by_name: &self.bt_adapters[self.adapter_idx] (aborts on an
\* index out of range), central.peripherals().await.unwrap(), then the
\* first peripheral whose name matches, or None.
SearchFlipperByName(outcome) ==
    /\ newRes = Ok
    /\ searchRes' = IF adapter_idx >= bt_adapters \/ outcome = "peripherals_fail"
                    THEN Panic
                    ELSE IF outcome = "found"
                    THEN [kind |-> "Some", adapter |-> adapter_idx]
                    ELSE [kind |-> "None"]
    /\ UNCHANGED << sysAdapters, bt_adapters, adapter_idx, newRes, setArg,
                    setRes, nameRes >>
    /\ UNCHANGED << codecVars, transportVars, splitVars >>

\* Before FlipperScanner::new, on a host with 0..MaxAdapters adapters.
InitScanner ==
    /\ CodecIdle
    /\ TransportIdle
    /\ SplitIdle
    /\ sysAdapters \in 0..MaxAdapters
    /\ bt_adapters = 0
    /\ adapter_idx = 0
    /\ newRes = NoCall
    /\ setArg = 0
    /\ setRes = NoCall
    /\ nameRes = NoCall
    /\ searchRes = NoCall

NextScanner ==
    \/ \E o \in {"manager_fail", "adapters_fail", "ok"} : ScannerNew(o)
    \/ \E idx \in SetIdxs : SetAdapter(idx)
    \/ \E ok \in BOOLEAN : GetAdapterName(ok)
    \/ \E o \in {"found", "absent", "peripherals_fail"} : SearchFlipperByName(o)

SpecScanner == InitScanner /\ [][NextScanner]_vars

(***************************************************************************)
(* Properties of the codec.                                                *)
(***************************************************************************)
\* The k-th body encoded onto the wire.
Sent(k) == Body(frames[k])

\* Frames whose last byte has been handed to decode.
NComplete == Cardinality({k \in 1..Len(ends) : ends[k] <= pos})

\* varint(len(body)) || body for each accepted body, in order.
RECURSIVE WireOf(_)
WireOf(ids) ==
    IF ids = << >>
    THEN << >>
    ELSE WireOf(SubSeq(ids, 1, Len(ids) - 1))
            \o encode_var(ids[Len(ids)].len) \o Body(ids[Len(ids)])

\* An error value that reports a body or a length over MAX_FRAME_LENGTH.
IsTooLarge(r) ==
    /\ r.kind = "Err"
    /\ \/ r.err = "DataTooLarge"
       \/ r.err = "InvalidData" /\ r.msg = "Data too big!"

\* C1: round trip.  When the encoding of one body (of any length 0..1536) is
\* the single chunk given to the first decode call of a fresh decoder, that
\* call returns exactly the body and the decoder's buffer is empty afterwards.
C1_RoundTrip ==
    (clean /\ Len(frames) = 1 /\ calls = "one" /\ fed = Len(wire))
        => /\ res = SomeFrame(Sent(1))
           /\ cbuf = << >>

\* The 1536-byte body has made the round trip in one chunk.
C1_Witness ==
    /\ clean /\ Len(frames) = 1 /\ calls = "one" /\ fed = Len(wire)
    /\ frames[1].len = MAX_FRAME_LENGTH
    /\ res.kind = "Some" /\ Len(res.frame) = MAX_FRAME_LENGTH

\* C2: incremental delivery.  With the encoding of one body delivered in
\* several chunks, every decode call made before the last byte has arrived
\* returns None (never an error), and the call whose chunk brings the last
\* byte returns exactly the body.
C2_Incremental ==
    (clean /\ Len(frames) = 1 /\ calls # "none")
        => /\ pos < Len(wire) => res = NoFrame
           /\ (pos = Len(wire) /\ calls = "more" /\ fed > 0)
                  => res = SomeFrame(Sent(1))

\* A 128-byte body, cut inside its two-byte prefix: the first byte came
\* earlier, the rest in the chunk of the call that returned the body.
C2_Witness ==
    /\ clean /\ Len(frames) = 1 /\ frames[1].len = 128
    /\ calls = "more" /\ pos = Len(wire) /\ fed = Len(wire) - 1
    /\ res.kind = "Some"

\* C3: FIFO multi-frame decoding.  The frames returned so far are exactly
\* the first frames that were encoded, in order (none lost, duplicated,
\* reordered or invented); a call returns None only when no complete frame
\* is left in the buffer, so after all frames were returned a further call
\* returns None; and no call fails.
C3_Fifo ==
    (clean /\ calls # "none")
        => /\ Len(out) <= NComplete
           /\ \A k \in 1..Len(out) : out[k] = Sent(k)
           /\ res.kind \in {"None", "Some"}
           /\ res.kind = "None" => Len(out) = NComplete
           /\ res.kind = "Some" => res.frame = out[Len(out)]

\* Two frames were returned and a further call with an empty chunk returned None.
C3_Witness ==
    /\ clean /\ Len(frames) = 2 /\ Len(out) = 2 /\ pos = Len(wire)
    /\ frames[1] # frames[2]
    /\ calls = "more" /\ fed = 0 /\ res = NoFrame

\* What C4 asks of a decoder with buffer buf whose last call returned r:
\* when that call left a complete prefix over MAX_FRAME_LENGTH at the head of
\* the buffer (it returned no frame, so this is the head it parsed), it
\* failed with DataTooLarge carrying the length the prefix encodes; and a
\* call that left the prefix 1536 at the head did not fail.
RejectsWithLength(buf, r) ==
    LET v == decode_var(buf)
    IN  (calls # "none" /\ r.kind # "Some" /\ v.some)
            => /\ v.len > MAX_FRAME_LENGTH => r = DataTooLarge(v.len)
               /\ v.len <= MAX_FRAME_LENGTH => r = NoFrame

\* StreamPacketizer::poll does what C4 says.
C4_PollCarriesLength == RejectsWithLength(pbuf, pres)

\* C4: oversize rejection on decode.  Whenever the prefix at the head of the
\* decode buffer is complete and encodes a length over MAX_FRAME_LENGTH,
\* decode (FlipperCodec::decode and StreamPacketizer::poll alike) fails with
\* DataTooLarge carrying that length, without waiting for body bytes; the
\* prefix 1536 is not rejected.
C4_OversizeCarriesLength ==
    /\ RejectsWithLength(cbuf, res)
    /\ RejectsWithLength(pbuf, pres)

C6_OversizeWriteReturnsDataTooLarge ==
    /\ \A k \in 1..Len(link) : link[k].body <= MAX_FRAME_LENGTH
    /\ (initRes = Ok /\ warg > MAX_FRAME_LENGTH /\ wres # NoCall)
           => wres = DataTooLarge(warg)

\* The part of C6 the code keeps: nothing over MAX_FRAME_LENGTH reaches the link.
C6_NoOversizeOnLink ==
    \A k \in 1..Len(link) : link[k].body <= MAX_FRAME_LENGTH

\* C7: with noise followed by the prompt at the source, the prompt drain of
\* serial init returns on the read that delivers the last byte of the
\* prompt: while it runs that byte is still to come, and when it returns
\* nothing of what the source emitted is left unread.
C7_DrainCompletesOnLastByte ==
    kind = "serial" =>
        /\ (tpc = "drain_prompt" => Len(dev) > 0)
        /\ (drainLeft # -1 => drainLeft = 0)

\* The prompt drain returned on a read that delivered only the last two
\* bytes of the prompt.
C7_Witness ==
    /\ kind = "serial"
    /\ tpc = "write_cmd"
    /\ drainLeft = 0
    /\ lastRead = 2

\* C8: no read_frame call returns a frame and no write_frame call writes to
\* the link unless an init on that transport completed successfully.
C8_NoTrafficBeforeInit ==
    (nread > 0 \/ link # << >>) => initRes = Ok

\* The serial side of C8: without a successful init, read_frame and
\* write_frame move nothing.
C8_SerialGated ==
    kind = "serial" => ((nread > 0 \/ link # << >>) => initRes = Ok)

(***************************************************************************)
(* Properties of the split halves.                                         *)
(***************************************************************************)
\* Neither half ever waits for the lock: whenever a half is at
\* self.flipper.read().await, the guard can be taken.
NeitherHalfBlocked ==
    /\ (spc \in {"lock_ovf", "lock_tx"} => ENABLED SenderLock)
    /\ (rpc = "lock" => ENABLED ReceiverLock)

IsDecodeCall == calls' # "none"

\* The chunk given to the decode call of this step.
ChunkOfCall == SubSeq(wire, pos + 1, pos')

\* C15: every decode call leaves the caller's buffer empty; when it returns
\* a frame, the internal buffer is the previous buffer plus the chunk with
\* exactly the leading prefix and body removed and the rest kept in order;
\* when it returns no frame yet, the internal buffer is the previous buffer
\* plus the chunk.
C15_DecodeFrameCondition ==
    [][ IsDecodeCall =>
          LET all == cbuf \o ChunkOfCall
              v   == decode_var(all)
          IN  /\ inbuf' = << >>
              /\ res'.kind = "Some" =>
                    /\ v.some
                    /\ res'.frame = SubSeq(all, v.consumed + 1, v.consumed + v.len)
                    /\ cbuf' = Drain(all, v.consumed + v.len)
              /\ res'.kind = "None" => cbuf' = all
      ]_vars

\* A call returned the first of two frames and kept the second frame's
\* bytes, which came in the same chunk.
C15_Witness ==
    /\ clean /\ Len(frames) = 2
    /\ calls = "one"
    /\ fed = Len(wire)
    /\ res.kind = "Some"
    /\ inbuf = << >>
    /\ Len(cbuf) = Len(wire) - ends[1]
    /\ Len(cbuf) > 0

\* C20: once a decode call (FlipperCodec::decode, StreamPacketizer::poll) on
\* an instance has failed on a prefix over MAX_FRAME_LENGTH, every later
\* call on it fails the same way whatever chunk it is given, returns no
\* frame, and the buffer still starts with what it held at the failure.
C20_OversizeSticky ==
    [][ IsDecodeCall =>
          /\ IsTooLarge(res) =>
                /\ res' = res
                /\ out' = out
                /\ cbuf' = cbuf \o ChunkOfCall
          /\ IsTooLarge(pres) =>
                /\ pres' = pres
                /\ pres'.err = "DataTooLarge"
                /\ pbuf' = pbuf \o ChunkOfCall
      ]_vars

\* After a failure on the prefix 65534, a call given the byte that follows
\* it failed again.
C20_Witness ==
    /\ ~clean
    /\ calls = "more"
    /\ fed = 1
    /\ pos = Len(wire)
    /\ IsTooLarge(res)
    /\ pres = DataTooLarge(65534)
    /\ Len(cbuf) = 4

(***************************************************************************)
(* Properties of BTLETransport::init.                                      *)
(***************************************************************************)
\* init got past discover_services: it returned something other than the
\* error of connect or of discover_services.
DiscoveryDone ==
    /\ initRes # NoCall
    /\ initRes \notin { BTFailure("connect_fail"), BTFailure("discover_fail") }

\* C11: when one of rx, tx, ovf is absent after discovery, init fails with
\* BTNoCharacteristics, has not subscribed and leaves self.chars unbound;
\* when init returns Ok, the three were found, self.chars is bound and rx is
\* subscribed.
C11_CharacteristicBinding ==
    kind = "ble" =>
        /\ (DiscoveryDone /\ discovered # AllCharacteristics)
              => (initRes = BTNoCharacteristics /\ ~subscribed /\ ~chars)
        /\ initRes = Ok
              => (discovered = AllCharacteristics /\ chars /\ subscribed)

\* init failed with only ovf absent.
C11_Witness ==
    /\ kind = "ble"
    /\ discovered = {"rx", "tx"}
    /\ initRes = BTNoCharacteristics
    /\ ~subscribed /\ ~chars

\* C12: a failed provider call never aborts the task: init does not abort
\* (its only aborts are on the serial open, a serial read, the serial flush
\* and the rx subscribe), a read_frame on a serial transport whose init
\* returned Ok does not abort (its only aborts there are on a failed read
\* and on a decode error, and the decode error is set aside here), and a
\* write_frame of a legal body on a BLE transport whose init
\* returned Ok does not abort (its only abort there is on the ovf read).
C12_ProviderFailureReturned ==
    /\ initRes # Panic
    /\ (kind = "serial" /\ initRes = Ok /\ ~OversizeHead(tcodec)) => rres # Panic
    /\ (kind = "ble" /\ initRes = Ok /\ warg <= MAX_FRAME_LENGTH) => wres # Panic

\* The part of C12 the code keeps: the failures of connect, of
\* discover_services, of notifications() and of the tx write come back as
\* error values.
C12_ReturnedFailures ==
    /\ initRes.kind = "Err" => initRes.err \in {"BTFailure", "BTNoCharacteristics", "IOFailure"}
    /\ wres.kind = "Err" => wres.err = "IOFailure"
    /\ rres.kind = "Err" => rres.err = "IOFailure"

(***************************************************************************)
(* Properties of the scanner.                                              *)
(***************************************************************************)
\* FlipperScanner::new got the adapter list: it returned, and not with the
\* error of Manager::new() or of manager.adapters().
AdaptersListed ==
    /\ newRes # NoCall
    /\ newRes \notin { BTFailure("manager"), BTAdapterError("adapters") }

\* C13: construction with an empty adapter list fails with the adapter
\* error kind (BTAdapterError, not the generic BTFailure); with at least one
\* adapter it succeeds with index 0 selected.
C13_EmptyListIsAdapterError ==
    /\ (AdaptersListed /\ sysAdapters = 0)
          => (newRes.kind = "Err" /\ newRes.err = "BTAdapterError")
    /\ (AdaptersListed /\ sysAdapters > 0)
          => (newRes = Ok /\ (setRes = NoCall => adapter_idx = 0))

\* The part of C13 the code keeps: with at least one adapter construction
\* succeeds with index 0 selected, and with none it fails.
C13_NonEmptySucceeds ==
    /\ (AdaptersListed /\ sysAdapters > 0)
          => (newRes = Ok /\ (setRes = NoCall => adapter_idx = 0))
    /\ (AdaptersListed /\ sysAdapters = 0) => newRes.kind = "Err"

\* A step that is a set_adapter call on a scanner.
IsSetAdapterCall ==
    /\ newRes = Ok /\ newRes' = Ok
    /\ nameRes' = nameRes
    /\ searchRes' = searchRes

\* C14: on a scanner, the selected index is always a valid index into the
\* adapter list; set_adapter(idx) with a valid idx selects idx and returns
\* Ok, and with any other idx returns OutOfBounds and leaves the selection
\* as it was.
C14_AdapterSelection ==
    /\ [](newRes = Ok => (adapter_idx >= 0 /\ adapter_idx < bt_adapters))
    /\ [][ IsSetAdapterCall =>
             IF setArg' < bt_adapters
             THEN setRes' = Ok /\ adapter_idx' = setArg'
             ELSE setRes' = OutOfBounds /\ adapter_idx' = adapter_idx
       ]_vars

\* With index 2 of three selected, set_adapter(3) returned OutOfBounds and
\* index 2 is still selected.
C14_Witness ==
    /\ newRes = Ok
    /\ bt_adapters = 3
    /\ setArg = bt_adapters
    /\ setRes = OutOfBounds
    /\ adapter_idx = 2

(***************************************************************************)
(* The order of the serial handshake.                                      *)
(***************************************************************************)
\* Position of a state of SerialTransport::init in the handshake.
HandshakeRank(st) ==
    CASE st = "new" -> 0
      [] st = "drain_prompt" -> 1
      [] st = "write_cmd" -> 2
      [] st = "drain_echo" -> 3
      [] st = "ready" -> 4
      [] OTHER -> 5

\* The bytes a drain step takes from the device.
DrainedByStep == SubSeq(dev, 1, Len(dev) - Len(dev'))

\* C16: in serial init the command is written only after the prompt was
\* seen in the bytes read, the transport becomes ready only after the echo
\* was seen in the bytes read after that write, nothing is decoded before
\* that, and the states are passed in order with no step back.
C16_HandshakeOrder ==
    /\ [](kind = "serial" =>
            /\ devMode = "rpc" => HandshakeRank(tpc) >= 2
            /\ framed => (devMode = "rpc" /\ HandshakeRank(tpc) >= 4)
            /\ ~framed => (tcodec = << >> /\ nread = 0 /\ ~busy))
    /\ [][kind = "serial" =>
            /\ tpc' # tpc =>
                  \/ tpc' \in {"failed", "panicked"}
                  \/ HandshakeRank(tpc') = HandshakeRank(tpc) + 1
            /\ (tpc = "drain_prompt" /\ tpc' = "write_cmd") =>
                  find_subsequence(patternbuf \o DrainedByStep, PROMPT_PATTERN).some
            /\ devMode' # devMode => tpc = "write_cmd"
            /\ (tpc = "drain_echo" /\ tpc' = "ready") =>
                  find_subsequence(patternbuf \o DrainedByStep, START_RPC_ECHO).some
            /\ framed' # framed => (tpc = "drain_echo" /\ tpc' = "ready")
       ]_vars

\* The handshake went through and a frame was then read.
C16_Witness ==
    /\ kind = "serial"
    /\ tpc = "ready"
    /\ initRes = Ok
    /\ framed
    /\ nread = 1
    /\ rres.kind = "Ok"

(***************************************************************************)
(* How long the halves hold the lock.                                      *)
(***************************************************************************)
\* C17: the receiver holds no guard while it waits for a notification (or
\* is outside its notifications() call at all); the sender holds a guard
\* only inside one characteristic read or one characteristic write, and
\* gives it back when that call ends, so between its ovf read and its tx
\* write it holds none.
C17_ShortLivedLocks ==
    /\ [](rpc \in {"idle", "lock", "wait"} => "receiver" \notin lock.readers)
    /\ [](spc \in {"idle", "lock_ovf", "lock_tx", "panicked"}
             => "sender" \notin lock.readers)
    /\ [][ /\ ("sender" \in lock.readers /\ spc' # spc)
                 => "sender" \notin lock.readers'
           /\ ("receiver" \in lock.readers /\ rpc' # rpc)
                 => "receiver" \notin lock.readers'
       ]_vars

\* The receiver waits for a notification and the sender is between its ovf
\* read and its tx write; no guard is out.
C17_Witness ==
    /\ tpc = "split"
    /\ rpc = "wait"
    /\ spc = "lock_tx"
    /\ lock.readers = {}

(***************************************************************************)
(* read_frame over BLE and the notifications.                              *)
(***************************************************************************)
\* buf starts with a complete frame: a prefix of at most MAX_FRAME_LENGTH
\* and that many bytes after it.
HoldsFrame(buf) ==
    LET v == decode_var(buf)
    IN  v.some /\ v.len <= MAX_FRAME_LENGTH /\ Len(buf) >= v.consumed + v.len

\* The first frame of a buffer that holds one, and what follows it.
FirstFrame(buf) ==
    LET v == decode_var(buf)
    IN  [frame |-> SubSeq(buf, v.consumed + 1, v.consumed + v.len),
         rest  |-> Drain(buf, v.consumed + v.len)]

\* A step in which read_frame is called on the BLE transport.
IsBleReadCall ==
    /\ kind = "ble" /\ ~busy
    /\ nemit' = nemit
    /\ (busy' \/ nread' # nread \/ rres' # rres)

\* C18: when the codec of a BLE transport already holds a complete frame at
\* a read_frame call, the call returns that frame without waiting for a
\* notification, and keeps what follows it; a call waits only when no
\* complete frame is held.
C18_DrainsBeforeWaiting ==
    /\ []((kind = "ble" /\ busy) => ~HoldsFrame(tcodec))
    /\ [][ (IsBleReadCall /\ HoldsFrame(tcodec)) =>
              /\ rres' = OkFrame(FirstFrame(tcodec).frame)
              /\ nread' = nread + 1
              /\ ~busy'
              /\ tcodec' = FirstFrame(tcodec).rest
       ]_vars

\* One notification carried two frames: the waiting call returned the
\* first and the next call returned the second with no further
\* notification.
C18_Witness ==
    /\ kind = "ble"
    /\ nemit = 1 /\ nfed = 1
    /\ nread = 2
    /\ rres = OkFrame(<<8>>)
    /\ ~busy
    /\ tcodec = << >>

\* C19: after init, the payload of every notification the peripheral
\* delivers on rx is given to the codec (exactly once, in order): none is
\* delivered without reaching it.
C19_NoNotificationLost ==
    (kind = "ble" /\ initRes = Ok) => nfed = nemit

\* The part of C19 the code keeps: a payload reaches the codec at most
\* once, and one delivered while read_frame waits on its stream reaches it.
C19_FedAtMostOnce ==
    /\ [](nfed <= nemit)
    /\ [][ (kind = "ble" /\ busy /\ nemit' = nemit + 1) => nfed' = nfed + 1 ]_vars


\* The outcome of one framing call, up to the representation of the oversize
\* error: nothing yet, a frame (with its bytes), or an oversize rejection.
OutcomeClass(r) ==
    IF r.kind = "Some" THEN << "frame", r.frame >>
    ELSE IF IsTooLarge(r) THEN << "oversize" >>
    ELSE IF r.kind = "None" THEN << "none" >>
    ELSE << "other", r >>

\* A step in which encode accepted a body.
IsEncodeCall == frames' # frames

\* C26: the two implementations of the framing rules agree.  After every
\* sequence of chunks, FlipperCodec::decode(chunk) and
\* StreamPacketizer::fill_buffer(chunk) followed by one poll() have produced
\* the same outcome (no frame, the same frame, or an oversize error) and
\* retain the same bytes; and for every body FlipperCodec::encode appends to
\* its buffer exactly the bytes build_frame returns, or both reject.
C26_FramingImplementationsAgree ==
    /\ [](/\ cbuf = pbuf
          /\ calls # "none" => OutcomeClass(res) = OutcomeClass(pres)
          /\ (encRes.kind = "Ok") <=> (bfRes.kind = "Ok")
          /\ (encRes.kind = "Err") <=> (bfRes.kind = "Err"))
    /\ [][(IsEncodeCall /\ encRes'.kind = "Ok")
              => wire' = wire \o bfRes'.frame]_vars

\* Both implementations have returned a frame from a chunk that held more
\* than the frame, and both have rejected an oversize body and an oversize
\* prefix.
C26_Witness ==
    /\ calls = "more"
    /\ res.kind = "Some"
    /\ pres.kind = "Some"
    /\ cbuf # << >>
    /\ Len(frames) = 1
    /\ \E k \in 1..Len(frames) : Len(Body(frames[k])) > 0

C26_OversizeWitness ==
    /\ IsTooLarge(res)
    /\ IsTooLarge(pres)
    /\ encRes.kind = "Err"
    /\ bfRes.kind = "Err"

\* C23: pattern detection with trailing bytes.  The device sends the echo
\* first after the command, so once the drain for the echo has read as many
\* bytes as the echo is long, the echo has occurred in the bytes read so far,
\* whatever followed it in the same read: the drain has returned and init is
\* not waiting in it any more.
C23_PatternSeenEndsDrain ==
    (kind = "serial" /\ tpc = "drain_echo") => drained < Len(START_RPC_ECHO)

\* init waits in the drain for the echo although the whole echo has been
\* read, the device has nothing more to send and the port holds no byte.
C23_InitHangs ==
    /\ kind = "serial" /\ tpc = "drain_echo"
    /\ drained >= Len(START_RPC_ECHO)
    /\ dev = << >>
    /\ nemit = MaxEmit

\* C24: no frame bytes are lost at the handshake boundary.  When init has
\* set up the framed stream, the drain for the echo has taken exactly the
\* bytes of the echo from the port, so every byte the device sent after the
\* echo is still to be read by the frame decoder.
C24_NoBytesLostAtHandshake ==
    (kind = "serial" /\ framed) => drained = Len(START_RPC_ECHO)

\* C21: decode-error propagation.  The step of a waiting read_frame that
\* gives the decoder a length prefix over MAX_FRAME_LENGTH ends the call
\* with an error value: the call does not go on waiting, the task is not
\* aborted and no frame is returned.
C21_DecodeErrorReturned ==
    [][ (busy /\ ~OversizeHead(tcodec) /\ OversizeHead(tcodec'))
            => (~busy' /\ rres'.kind = "Err" /\ nread' = nread) ]_vars

\* The part of C21 the code keeps: on the radio transport the call that
\* observes the prefix returns IOFailure.
C21_BleDecodeErrorReturned ==
    [][ (kind = "ble" /\ busy /\ ~OversizeHead(tcodec) /\ OversizeHead(tcodec'))
            => (~busy' /\ rres'.kind = "Err" /\ rres'.err = "IOFailure"
                /\ nread' = nread) ]_vars

\* C22: no busy-waiting.  A read_frame that is waiting when the link has
\* ended (the serial stream is at end-of-stream, the notification stream
\* yields no item) eventually returns.
C22_ReadFrameReturnsAtEnd == (busy /\ eof) ~> ~busy

\* C25: split preserves received data.  The bytes the decoder had retained
\* when split_stream is called are the bytes the decoder of the receiver
\* half starts with.
C25_SplitKeepsBufferedBytes ==
    [][ (tpc # "split" /\ tpc' = "split") => tcodec' = tcodec ]_vars
====
